---- MODULE Spec2Model ----
(***************************************************************************)
(* frigate/output.py: the live-output process.                             *)
(*                                                                         *)
(*   FFMpegConverter       one encoder subprocess per channel              *)
(*   BroadcastThread       one relay thread per channel                    *)
(*   BirdsEyeFrameManager  the birdseye compositor                         *)
(*   output_frames         the coordinator: main loop, drain, teardown     *)
(*                                                                         *)
(* Names (camera names, request paths, frame ids) are sequences of         *)
(* one-character strings, so that str.endswith and the f-string that       *)
(* builds a frame id are computed, not assumed.                            *)
(***************************************************************************)
EXTENDS Integers, Sequences, FiniteSets, TLC

(* ------------------------------------------------------------------ *)
(* Bounds of the model                                                 *)
(* ------------------------------------------------------------------ *)
\* the wall clock is followed for MaxTicks steps of ClockStep seconds
MaxTicks == 4
ClockStep == 10
MaxFrames == 2
MaxConns == 1
MaxViewers == 2
MaxChunks == 3
\* the cameras of the runs that size the grid
MaxActive == 12

MaxTime == MaxTicks * ClockStep

(* ------------------------------------------------------------------ *)
(* Program constants                                                   *)
(* ------------------------------------------------------------------ *)
\* "if now - frame_time < 30"
ActiveWindow == 30

(* ------------------------------------------------------------------ *)
(* Names                                                               *)
(* ------------------------------------------------------------------ *)
yard == <<"y", "a", "r", "d">>
backyard == <<"b", "a", "c", "k">> \o yard
birdseye == <<"b", "i", "r", "d", "s", "e", "y", "e">>

gate == <<"g", "a", "t", "e">>

\* config.cameras
Cameras == {yard, backyard}
\* config.cameras of the runs that exercise the compositor alone
BirdseyeCameras == Cameras \cup {gate}
\* the keys of converters / broadcasters
Channels == Cameras \cup {birdseye}

\* Python's None, and a dict key that is absent
None == <<>>
\* an attribute that has not been assigned yet (self.columns, self.rows)
Unset == 0 - 1

Range(s) == {s[i] : i \in 1..Len(s)}

\* str.endswith
EndsWith(s, suffix) ==
    /\ Len(suffix) <= Len(s)
    /\ SubSeq(s, Len(s) - Len(suffix) + 1, Len(s)) = suffix

\* the request path a viewer of channel ch uses: "/<channel>"
PathOf(ch) == <<"/">> \o ch

\* the final segment of a request path (what follows its last "/")
RECURSIVE TrailingSegment(_)
TrailingSegment(path) ==
    IF path = <<>> \/ path[Len(path)] = "/" THEN <<>>
    ELSE TrailingSegment(SubSeq(path, 1, Len(path) - 1)) \o <<path[Len(path)]>>

\* str(n) for a natural number
Digit(d) == <<"0", "1", "2", "3", "4", "5", "6", "7", "8", "9">>[d + 1]
RECURSIVE Digits(_)
Digits(n) == IF n < 10 THEN <<Digit(n)>> ELSE Digits(n \div 10) \o <<Digit(n % 10)>>
\* str(t) for a float timestamp with no fractional part: "10.0"
FloatStr(t) == Digits(t) \o <<".", "0">>

\* frame_id = f"{camera}{frame_time}"
FrameId(camera, frame_time) == camera \o FloatStr(frame_time)


(* ------------------------------------------------------------------ *)
(* math.sqrt with round / math.ceil, on natural numbers                *)
(* ------------------------------------------------------------------ *)
\* round(math.sqrt(n)): sqrt(n) is never k + 0.5 for an integer n, so the
\* rounding mode does not matter: the k with k(k-1) < n <= k(k+1); 0 for 0.
RoundSqrt(n) ==
    IF n = 0 THEN 0 ELSE CHOOSE k \in 1..n : k * (k - 1) < n /\ n <= k * (k + 1)

\* math.floor(math.sqrt(n)): the greatest k with k*k <= n
FloorSqrt(n) == CHOOSE k \in 0..n : k * k <= n /\ (k + 1) * (k + 1) > n

\* math.ceil(math.sqrt(n)): the least k with k*k >= n
CeilSqrt(n) == CHOOSE k \in 0..n : k * k >= n /\ \A j \in 0..(k - 1) : j * j < n

(* ------------------------------------------------------------------ *)
(* State                                                               *)
(* ------------------------------------------------------------------ *)
VARIABLES
    now,                \* datetime.datetime.now().timestamp()
    queue,              \* video_output_queue
    made,               \* the frame ids the capture pipeline has produced
    store,              \* the named shared-memory buffers that exist
    shm_store,          \* the frame manager's attached views
    previous_frames,    \* camera -> frame id, None when absent
    stop_event,
    pc,                 \* where the coordinator is in output_frames
    raised,             \* the exception that ended the coordinator, "none" if none
    conns,              \* websocket_server.manager: connection -> state and path
    procAlive,          \* channel -> its ffmpeg subprocess is running
    writes,             \* channel -> number of FFMpegConverter.write calls
    calls,              \* the frame manager's calls, in order: the gets that
                        \* returned a buffer and the deletes
    last_active_frames, \* the dict, in insertion order: <<[cam, t], ...>>
    camera_layout,
    columns,
    rows,
    frame,              \* the composite: blank_frame or the id of the frame copied in
    upd,                \* the last BirdsEyeFrameManager.update call
    relayPc,            \* channel -> where its BroadcastThread is
    relayBuf,           \* channel -> buf, 0 when none
    relayIdx,           \* channel -> the last connection the for loop visited
    pipeOut,            \* channel -> encoded chunks not yet read
    emitted,            \* channel -> number of chunks the encoder has produced
    received,           \* connection -> the chunks sent to it, in order
    due,                \* connection -> the chunks read while it was subscribed
    cur,                \* the item whose converter write the coordinator is blocked in
    signals,            \* channel -> the signals exit() has sent to its subprocess
    exited,             \* the number of converters whose exit() has returned
    joined              \* the number of broadcasters whose join() has returned

coordVars == <<queue, made, store, shm_store, previous_frames, stop_event, pc, raised,
               writes, calls>>
birdVars == <<last_active_frames, camera_layout, columns, rows, frame, upd>>
relayVars == <<relayPc, relayBuf, relayIdx, pipeOut, emitted, received, due>>
tearVars == <<signals, exited, joined>>
vars == <<now, conns, procAlive, coordVars, birdVars, relayVars, cur, tearVars>>

\* the connection slots of a run, in the order the connections are made
ConnIds == DOMAIN conns
NoConn == [state |-> "new", path |-> <<>>]

\* the blank template (the composite holds it, or the frame last copied in)
blank_frame == <<>>

\* no item is being written
NoItem == [camera |-> None, frame_time |-> 0, objects |-> 0]

NoUpdate == [active |-> <<>>, cellsBefore |-> 0, heldBefore |-> {}, columnsBefore |-> Unset,
             rowsBefore |-> Unset, rebuilt |-> FALSE, result |-> "none"]

Init ==
    /\ now = 0
    /\ queue = <<>>
    /\ made = {}
    /\ store = {}
    /\ shm_store = {}
    /\ previous_frames = [c \in Cameras |-> None]
    /\ stop_event = FALSE
    /\ pc = "loop"
    /\ raised = "none"
    /\ conns = [c \in 1..MaxConns |-> NoConn]
    /\ procAlive = [ch \in Channels |-> TRUE]
    /\ writes = [ch \in Channels |-> 0]
    /\ calls = <<>>
    /\ last_active_frames = <<>>
    /\ camera_layout = <<>>
    /\ columns = Unset
    /\ rows = Unset
    /\ frame = blank_frame
    /\ upd = NoUpdate
    /\ relayPc = [ch \in Channels |-> "read"]
    /\ relayBuf = [ch \in Channels |-> 0]
    /\ relayIdx = [ch \in Channels |-> 0]
    /\ pipeOut = [ch \in Channels |-> <<>>]
    /\ emitted = [ch \in Channels |-> 0]
    /\ received = [c \in 1..MaxConns |-> <<>>]
    /\ due = [c \in 1..MaxConns |-> <<>>]
    /\ cur = NoItem
    /\ signals = [ch \in Channels |-> <<>>]
    /\ exited = 0
    /\ joined = 0

(* ------------------------------------------------------------------ *)
(* BirdsEyeFrameManager                                                *)
(* ------------------------------------------------------------------ *)
\* self.last_active_frames[camera] = frame_time: a dict keeps the position of
\* a key it already holds and appends a new one
DictSet(d, camera, frame_time) ==
    IF \E i \in 1..Len(d) : d[i].cam = camera
    THEN [i \in 1..Len(d) |-> IF d[i].cam = camera
                              THEN [cam |-> camera, t |-> frame_time] ELSE d[i]]
    ELSE Append(d, [cam |-> camera, t |-> frame_time])

\* the window test with the boundary on the other side
IsActiveInclusive(entry) == now - entry.t <= ActiveWindow

\* the cameras that tracked an object within the last 30 seconds, in dict order
IsActive(entry) == now - entry.t < ActiveWindow
ActiveCameras(d) ==
    LET kept == SelectSeq(d, IsActive)
    IN [i \in 1..Len(kept) |-> kept[i].cam]

\* the resize test with math.ceil in the place of round
NeedsResizeCeil(n_active, n_cells) == CeilSqrt(n_active) # CeilSqrt(n_cells)

\* "if the sqrt of the layout and the active cameras don't round to the same
\* value, we need to resize the layout"
NeedsResize(n_active, n_cells) == RoundSqrt(n_active) # RoundSqrt(n_cells)

\* a square grid whatever the rows are
SquareCells(cols, rws) == cols * cols

\* self.camera_layout = [None] * (self.columns * self.rows)
GridCells(cols, rws) == cols * rws

\* remove inactive cameras from the layout
Evict(layout, active_cameras) ==
    [i \in 1..Len(layout) |-> IF layout[i] \in Range(active_cameras) THEN layout[i] ELSE None]

\* the cells the placement loop looks at: range(0, len(self.camera_layout) - 1),
\* as 1-based indices
PlacementCells(layout) == 1..(Len(layout) - 1)

\* "place camera in the first available spot in the layout"
PlaceOne(layout, cam) ==
    LET free == {i \in PlacementCells(layout) : layout[i] = None}
    IN IF free = {} THEN layout
       ELSE [layout EXCEPT ![CHOOSE i \in free : \A j \in free : i <= j] = cam]

\* if cam in self.camera_layout: continue
InLayout(layout, cam) == cam \in Range(layout)

\* while len(active_cameras) > 0: cam = active_cameras.pop() ...
RECURSIVE Place(_, _)
Place(layout, active_cameras) ==
    IF active_cameras = <<>> THEN layout
    ELSE LET cam == active_cameras[Len(active_cameras)]
             rest == SubSeq(active_cameras, 1, Len(active_cameras) - 1)
         IN IF InLayout(layout, cam) THEN Place(layout, rest)
            ELSE Place(PlaceOne(layout, cam), rest)

\* update(camera, object_count, motion_count, frame_time, frame), evaluated in the
\* current state: the new fields, the active cameras it computed, whether it
\* resized, and how it ended ("False", "True", or the exception it raised).
\* motion_count is not read by the method. new_frame stands for the frame's
\* pixels; the frame is taken to have the canvas's shape.
Update(camera, object_count, frame_time, new_frame) ==
    LET laf == IF object_count > 0
               THEN DictSet(last_active_frames, camera, frame_time)
               ELSE last_active_frames
        active_cameras == ActiveCameras(laf)
        n == Len(active_cameras)
        same == [last_active_frames |-> laf, camera_layout |-> camera_layout,
                 columns |-> columns, rows |-> rows, frame |-> frame,
                 active |-> active_cameras, rebuilt |-> FALSE, result |-> "False"]
    IN IF n = 0 /\ Len(camera_layout) = 0 THEN same
       ELSE LET resize == NeedsResize(n, Len(camera_layout))
                cols1 == IF resize THEN CeilSqrt(n) ELSE columns
                rows1 == IF resize THEN RoundSqrt(n) ELSE rows
                layout1 == IF resize THEN [i \in 1..GridCells(cols1, rows1) |-> None]
                           ELSE camera_layout
                frame1 == IF resize THEN blank_frame ELSE frame
                layout3 == Place(Evict(layout1, active_cameras), active_cameras)
                \* width = self.frame_shape[1] / self.columns
                \* height = self.frame_shape[0] / self.rows
                divides == cols1 # 0 /\ rows1 # 0
            IN [last_active_frames |-> laf, camera_layout |-> layout3,
                columns |-> cols1, rows |-> rows1,
                frame |-> IF divides THEN new_frame ELSE frame1,
                active |-> active_cameras, rebuilt |-> resize,
                result |-> IF divides THEN "True" ELSE "ZeroDivisionError"]

\* what upd remembers of a call
UpdateRecord(u) ==
    [active |-> u.active, cellsBefore |-> Len(camera_layout),
     heldBefore |-> Range(camera_layout) \ {None}, columnsBefore |-> columns,
     rowsBefore |-> rows, rebuilt |-> u.rebuilt, result |-> u.result]


\* the compositor after the call that computed u
Updated(u) ==
    /\ last_active_frames' = u.last_active_frames
    /\ camera_layout' = u.camera_layout
    /\ columns' = u.columns
    /\ rows' = u.rows
    /\ frame' = u.frame
    /\ upd' = UpdateRecord(u)

(* ------------------------------------------------------------------ *)
(* The live-view server's connections                                  *)
(* ------------------------------------------------------------------ *)
\* the connections "for ws in websocket_server.manager" yields
InManager(c) == conns[c].state \in {"open", "broken", "stalled"}

\* any(ws.environ["PATH_INFO"].endswith(name) for ws in websocket_server.manager)
AnyListener(name) == \E c \in ConnIds : InManager(c) /\ EndsWith(conns[c].path, name)

\* if ws.environ["PATH_INFO"].endswith(self.camera)
RelayMatches(c, ch) == EndsWith(conns[c].path, ch)

\* A viewer that has stopped accepting data: ws.send to it does not return. The
\* relay of a channel that sends to it stays in that send and reads no more, the
\* encoder's stdout pipe fills, the encoder stops reading its stdin, that pipe
\* fills, and self.process.stdin.write(b) on the channel does not return.
\* "stalled" is the state of a viewer whose backlog has reached the stdin pipe.
Stalled(ch) == \E c \in ConnIds : conns[c].state = "stalled" /\ RelayMatches(c, ch)

\* a connection subscribed to channel ch: its path's final segment names ch
Subscribed(c, ch) == InManager(c) /\ TrailingSegment(conns[c].path) = ch
HasSubscriber(ch) == \E c \in ConnIds : Subscribed(c, ch)

\* the process is up: output_frames has neither returned nor raised
Running == pc \notin {"done", "crashed"}

\* a viewer connects with a request path: the connection takes the first free
\* slot (the manager keys a connection by its socket's file descriptor)
Connect(path) ==
    /\ Running
    /\ \E c \in ConnIds :
        /\ conns[c].state = "new"
        /\ \A b \in ConnIds : b < c => conns[b].state # "new"
        /\ conns' = [conns EXCEPT ![c] = [state |-> "open", path |-> path]]
    /\ UNCHANGED <<cur, tearVars>>
    /\ UNCHANGED <<now, procAlive, coordVars, birdVars, relayVars>>

\* a viewer goes away and the manager drops its connection: the slot is free
\* for a later connection
Disconnect(c) ==
    /\ Running
    /\ InManager(c)
    /\ conns' = [conns EXCEPT ![c] = NoConn]
    /\ received' = [received EXCEPT ![c] = <<>>]
    /\ due' = [due EXCEPT ![c] = <<>>]
    /\ UNCHANGED <<cur, tearVars>>
    /\ UNCHANGED <<now, procAlive, coordVars, birdVars, relayPc, relayBuf, relayIdx,
                   pipeOut, emitted>>

\* a viewer stops accepting data
ConnStalls(c) ==
    /\ Running
    /\ conns[c].state = "open"
    /\ conns' = [conns EXCEPT ![c].state = "stalled"]
    /\ UNCHANGED <<now, procAlive, coordVars, birdVars, relayVars, cur, tearVars>>

\* the viewer accepts data again
ConnResumes(c) ==
    /\ Running
    /\ conns[c].state = "stalled"
    /\ conns' = [conns EXCEPT ![c].state = "open"]
    /\ UNCHANGED <<now, procAlive, coordVars, birdVars, relayVars, cur, tearVars>>

(* ------------------------------------------------------------------ *)
(* The frame store (frigate.util.SharedMemoryFrameManager)             *)
(* ------------------------------------------------------------------ *)
\* get(id, shape) returns a buffer when the named buffer exists, and fails
\* with NotFound when it does not
FrameExists(id) == id \in store

\* the attached views after delete(id) for each id of a sequence
RECURSIVE Released(_, _)
Released(views, ids) ==
    IF ids = <<>> THEN views ELSE Released(views \ {Head(ids)}, Tail(ids))

\* the calls a get that returned a buffer, and a sequence of deletes, add
GetCall(frame_id) == <<[op |-> "get", id |-> frame_id]>>
DeleteCalls(ids) == [i \in 1..Len(ids) |-> [op |-> "delete", id |-> ids[i]]]

\* the frame ids a get returned a buffer for, and how often one was deleted
GotIds == {calls[i].id : i \in {j \in 1..Len(calls) : calls[j].op = "get"}}
DeleteCount(frame_id) ==
    Cardinality({i \in 1..Len(calls) : calls[i] = [op |-> "delete", id |-> frame_id]})

(* ------------------------------------------------------------------ *)
(* The capture pipeline, the wall clock, the signals                   *)
(* ------------------------------------------------------------------ *)
\* time passes
Tick(d) ==
    /\ Running
    /\ now + d <= MaxTime
    /\ now' = now + d
    /\ UNCHANGED <<cur, tearVars>>
    /\ UNCHANGED <<conns, procAlive, coordVars, birdVars, relayVars>>

\* the capture pipeline queues the metadata of a frame of `camera` taken now,
\* with `objects` tracked objects; `written` is whether its buffer exists when
\* the coordinator looks for it
Produce(camera, objects, written) ==
    /\ Running
    /\ Cardinality(made) < MaxFrames
    /\ FrameId(camera, now) \notin made
    /\ made' = made \cup {FrameId(camera, now)}
    /\ store' = IF written THEN store \cup {FrameId(camera, now)} ELSE store
    /\ queue' = Append(queue, [camera |-> camera, frame_time |-> now, objects |-> objects])
    /\ UNCHANGED <<cur, tearVars>>
    /\ UNCHANGED <<now, conns, procAlive, shm_store, previous_frames, stop_event, pc,
                   raised, writes, calls, birdVars, relayVars>>

\* receiveSignal: SIGTERM or SIGINT
ReceiveSignal ==
    /\ Running
    /\ ~stop_event
    /\ stop_event' = TRUE
    /\ UNCHANGED <<cur, tearVars>>
    /\ UNCHANGED <<now, conns, procAlive, queue, made, store, shm_store, previous_frames,
                   pc, raised, writes, calls, birdVars, relayVars>>

\* an ffmpeg subprocess exits on its own
EncoderDies(ch) ==
    /\ Running
    /\ procAlive[ch]
    /\ procAlive' = [procAlive EXCEPT ![ch] = FALSE]
    /\ UNCHANGED <<cur, tearVars>>
    /\ UNCHANGED <<now, conns, coordVars, birdVars, relayVars>>

(* ------------------------------------------------------------------ *)
(* output_frames: the main loop                                        *)
(* ------------------------------------------------------------------ *)
\* while not stop_event.is_set():
LoopCheck ==
    /\ pc = "loop"
    /\ pc' = IF stop_event THEN "drain" ELSE "wait"
    /\ UNCHANGED <<cur, tearVars>>
    /\ UNCHANGED <<now, conns, procAlive, queue, made, store, shm_store, previous_frames,
                   stop_event, raised, writes, calls, birdVars, relayVars>>

\* video_output_queue.get(True, 10) raises queue.Empty: continue
QueueTimeout ==
    /\ pc = "wait"
    /\ queue = <<>>
    /\ pc' = "loop"
    /\ UNCHANGED <<cur, tearVars>>
    /\ UNCHANGED <<now, conns, procAlive, queue, made, store, shm_store, previous_frames,
                   stop_event, raised, writes, calls, birdVars, relayVars>>

\* "write to the converter for the camera if clients are listening to the
\* specific camera"
CameraHasListener(camera) == AnyListener(camera)

\* "update birdseye if websockets are connected"
BirdseyeHasListener == AnyListener(birdseye)

\* the main loop's deletes, were it to release the frame it has just used too
MainLoopDeletesEager(camera, frame_id) ==
    (IF previous_frames[camera] # None THEN <<previous_frames[camera]>> ELSE <<>>)
        \o <<frame_id>>

\* if camera in previous_frames: frame_manager.delete(previous_frames[camera])
MainLoopDeletes(camera, frame_id) ==
    IF previous_frames[camera] # None THEN <<previous_frames[camera]>> ELSE <<>>

\* the coordinator is inside a converter write that has not returned
Blocked == pc \in {"write_camera", "write_birdseye"}

\* One iteration of the main loop on an item, from `stage`: "get" for an item
\* just dequeued, "write_camera" or "write_birdseye" for the item whose write
\* the coordinator was blocked in. It runs to the end of the iteration, to the
\* next write that blocks, or to the step that raises: nothing in the loop
\* catches an exception other than queue.Empty, so that step ends output_frames.
Iteration(item, stage) ==
    LET camera == item.camera
        frame_id == FrameId(camera, item.frame_time)
        got == stage # "get" \/ FrameExists(frame_id)
        camWrite == IF stage = "get" THEN got /\ CameraHasListener(camera)
                    ELSE stage = "write_camera"
        camOk == camWrite => procAlive[camera]
        camBlock == camWrite /\ camOk /\ Stalled(camera)
        pastCam == got /\ camOk /\ ~camBlock
        beUpdate == stage # "write_birdseye" /\ pastCam /\ BirdseyeHasListener
        u == Update(camera, item.objects, item.frame_time, frame_id)
        beWrite == IF stage = "write_birdseye" THEN TRUE
                   ELSE beUpdate /\ u.result = "True"
        beBlock == pastCam /\ beWrite /\ procAlive[birdseye] /\ Stalled(birdseye)
        exc == IF ~got THEN "NotFound"
               ELSE IF ~camOk THEN "BrokenPipeError"
               ELSE IF camBlock THEN "none"
               ELSE IF beUpdate /\ u.result = "ZeroDivisionError" THEN "ZeroDivisionError"
               ELSE IF beWrite /\ ~procAlive[birdseye] THEN "BrokenPipeError"
               ELSE "none"
        blocked == IF camBlock THEN "write_camera"
                   ELSE IF exc = "none" /\ beBlock THEN "write_birdseye"
                   ELSE "no"
        deletes == IF exc = "none" /\ blocked = "no"
                   THEN MainLoopDeletes(camera, frame_id) ELSE <<>>
    IN /\ calls' = calls \o (IF stage = "get" /\ got THEN GetCall(frame_id) ELSE <<>>)
                         \o DeleteCalls(deletes)
       \* a write is counted when it is called
       /\ writes' = [ch \in Channels |->
                       IF \/ ch = camera /\ stage = "get" /\ camWrite
                          \/ ch = birdseye /\ beUpdate /\ beWrite
                       THEN writes[ch] + 1 ELSE writes[ch]]
       /\ IF beUpdate THEN Updated(u) ELSE UNCHANGED birdVars
       /\ shm_store' = Released(IF stage = "get" /\ got THEN shm_store \cup {frame_id}
                                ELSE shm_store, deletes)
       /\ store' = Released(store, deletes)
       /\ IF exc # "none"
          THEN /\ pc' = "crashed"
               /\ raised' = exc
               /\ cur' = NoItem
               /\ UNCHANGED previous_frames
          ELSE IF blocked # "no"
          THEN /\ pc' = blocked
               /\ cur' = item
               /\ UNCHANGED <<raised, previous_frames>>
          ELSE /\ previous_frames' = [previous_frames EXCEPT ![camera] = frame_id]
               /\ pc' = "loop"
               /\ cur' = NoItem
               /\ UNCHANGED raised

\* video_output_queue.get(True, 10) returns an item: the iteration on it
ProcessFrame ==
    /\ pc = "wait"
    /\ queue # <<>>
    /\ queue' = Tail(queue)
    /\ Iteration(Head(queue), "get")
    /\ UNCHANGED <<now, conns, procAlive, made, stop_event, relayVars, tearVars>>

\* the channel whose converter the coordinator is writing to
Writing == IF pc = "write_camera" THEN cur.camera ELSE birdseye

\* self.process.stdin.write(b) returns, or raises because the subprocess has
\* exited: the rest of the iteration
WriteResumes ==
    /\ Blocked
    /\ ~procAlive[Writing] \/ ~Stalled(Writing)
    /\ Iteration(cur, pc)
    /\ UNCHANGED <<now, conns, procAlive, queue, made, stop_event, relayVars, tearVars>>

(* ------------------------------------------------------------------ *)
(* output_frames: the drain and the teardown                           *)
(* ------------------------------------------------------------------ *)
\* a drain that only attaches
DrainDeletesNothing(frame_id) == <<>>

\* frame_manager.delete(frame_id) in the drain
DrainDeletes(frame_id) == <<frame_id>>

\* while not video_output_queue.empty(): get the frame and delete it
DrainFrame ==
    /\ pc = "drain"
    /\ queue # <<>>
    /\ LET item == Head(queue)
           frame_id == FrameId(item.camera, item.frame_time)
           got == FrameExists(frame_id)
           deletes == IF got THEN DrainDeletes(frame_id) ELSE <<>>
       IN /\ queue' = Tail(queue)
          /\ calls' = calls \o (IF got THEN GetCall(frame_id) ELSE <<>>) \o DeleteCalls(deletes)
          /\ shm_store' = Released(IF got THEN shm_store \cup {frame_id} ELSE shm_store,
                                   deletes)
          /\ store' = Released(store, deletes)
          /\ IF got THEN UNCHANGED <<pc, raised>>
             ELSE pc' = "crashed" /\ raised' = "NotFound"
    /\ UNCHANGED <<cur, tearVars>>
    /\ UNCHANGED <<now, conns, procAlive, made, previous_frames, stop_event, writes,
                   birdVars, relayVars>>

\* the queue is seen empty: the drain ends
DrainDone ==
    /\ pc = "drain"
    /\ queue = <<>>
    /\ pc' = "exit"
    /\ UNCHANGED <<cur, tearVars>>
    /\ UNCHANGED <<now, conns, procAlive, queue, made, store, shm_store, previous_frames,
                   stop_event, raised, writes, calls, birdVars, relayVars>>

\* converters.values() and broadcasters.values(): the cameras in the order of
\* config.cameras, then birdseye
ConverterOrder == <<yard, backyard, birdseye>>

\* the converter whose exit() the coordinator is in, the broadcaster it is joining
Exiting == ConverterOrder[exited + 1]
Joining == ConverterOrder[joined + 1]

\* where the coordinator goes when one more exit() has returned
AfterExit == IF exited + 1 = Len(ConverterOrder) THEN "join" ELSE "exit"

\* FFMpegConverter.exit: self.process.terminate(). Popen.terminate sends SIGTERM
\* unless the subprocess has already exited.
ExitTerminate ==
    /\ pc = "exit"
    /\ signals' = [signals EXCEPT ![Exiting] =
                      IF procAlive[Exiting] THEN Append(@, "SIGTERM") ELSE @]
    /\ pc' = "communicate"
    /\ UNCHANGED <<now, conns, procAlive, queue, made, store, shm_store, previous_frames,
                   stop_event, raised, writes, calls, birdVars, relayVars, cur, exited,
                   joined>>

\* self.process.communicate(timeout=30) returns: the subprocess has exited.
\* communicate reads what is left of the subprocess's stdout and closes it.
ExitReturns ==
    /\ pc = "communicate"
    /\ ~procAlive[Exiting]
    /\ exited' = exited + 1
    /\ pipeOut' = [pipeOut EXCEPT ![Exiting] = <<>>]
    /\ pc' = AfterExit
    /\ UNCHANGED <<now, conns, procAlive, queue, made, store, shm_store, previous_frames,
                   stop_event, raised, writes, calls, birdVars, relayPc, relayBuf, relayIdx,
                   emitted, received, due, cur, signals, joined>>

\* the except branch, were it to leave the subprocess alone
TimeoutExpiredNoKill(ch) == [signals |-> signals[ch], alive |-> procAlive[ch]]

\* except sp.TimeoutExpired: self.process.kill(); self.process.communicate()
\* SIGKILL cannot be caught, and communicate() without a timeout returns when
\* the subprocess has exited.
TimeoutExpired(ch) == [signals |-> Append(signals[ch], "SIGKILL"), alive |-> FALSE]

\* communicate(timeout=30) raises TimeoutExpired: the subprocess is still running
ExitTimeout ==
    /\ pc = "communicate"
    /\ procAlive[Exiting]
    /\ signals' = [signals EXCEPT ![Exiting] = TimeoutExpired(Exiting).signals]
    /\ procAlive' = [procAlive EXCEPT ![Exiting] = TimeoutExpired(Exiting).alive]
    /\ exited' = exited + 1
    /\ pipeOut' = [pipeOut EXCEPT ![Exiting] = <<>>]
    /\ pc' = AfterExit
    /\ UNCHANGED <<now, conns, queue, made, store, shm_store, previous_frames,
                   stop_event, raised, writes, calls, birdVars, relayPc, relayBuf, relayIdx,
                   emitted, received, due, cur, joined>>

\* threading.Thread.join returns once the thread's run has ended, by return or
\* by an exception
RelayOver(ch) == relayPc[ch] \in {"ended", "crashed", "closed"}

\* for b in broadcasters.values(): b.join(): one join returns
JoinBroadcasters ==
    /\ pc = "join"
    /\ RelayOver(Joining)
    /\ joined' = joined + 1
    /\ pc' = IF joined + 1 = Len(ConverterOrder) THEN "close" ELSE "join"
    /\ UNCHANGED <<now, conns, procAlive, queue, made, store, shm_store, previous_frames,
                   stop_event, raised, writes, calls, birdVars, relayVars, cur, signals,
                   exited>>

\* manager.close_all(), stop(), join(); websocket_server.shutdown();
\* websocket_thread.join()
CloseServer ==
    /\ pc = "close"
    /\ conns' = [c \in ConnIds |-> [state |-> "closed", path |-> <<>>]]
    /\ pc' = "done"
    /\ UNCHANGED <<cur, tearVars>>
    /\ UNCHANGED <<now, procAlive, queue, made, store, shm_store, previous_frames,
                   stop_event, raised, writes, calls, birdVars, relayVars>>

(* ------------------------------------------------------------------ *)
(* BroadcastThread.run                                                 *)
(* ------------------------------------------------------------------ *)
\* the encoder of ch produces its next chunk of output
EncoderEmits(ch) ==
    /\ procAlive[ch]
    /\ emitted[ch] < MaxChunks
    /\ emitted' = [emitted EXCEPT ![ch] = @ + 1]
    /\ pipeOut' = [pipeOut EXCEPT ![ch] = Append(@, emitted[ch] + 1)]
    /\ UNCHANGED <<cur, tearVars>>
    /\ UNCHANGED <<now, conns, procAlive, coordVars, birdVars, relayPc, relayBuf,
                   relayIdx, received, due>>

\* the peer of a connection is gone: ws.send on it raises from now on, and the
\* manager has not dropped the connection yet
ConnBreaks(c) ==
    /\ conns[c].state = "open"
    /\ conns' = [conns EXCEPT ![c].state = "broken"]
    /\ UNCHANGED <<cur, tearVars>>
    /\ UNCHANGED <<now, procAlive, coordVars, birdVars, relayVars>>

\* buf = self.converter.read(65536), with buf not empty
RelayRead(ch) ==
    /\ relayPc[ch] = "read"
    /\ pipeOut[ch] # <<>>
    /\ relayBuf' = [relayBuf EXCEPT ![ch] = Head(pipeOut[ch])]
    /\ pipeOut' = [pipeOut EXCEPT ![ch] = Tail(@)]
    /\ relayIdx' = [relayIdx EXCEPT ![ch] = 0]
    /\ relayPc' = [relayPc EXCEPT ![ch] = "send"]
    /\ due' = [c \in ConnIds |->
                 IF Subscribed(c, ch) THEN Append(due[c], [ch |-> ch, n |-> Head(pipeOut[ch])])
                 ELSE due[c]]
    /\ UNCHANGED <<cur, tearVars>>
    /\ UNCHANGED <<now, conns, procAlive, coordVars, birdVars, emitted, received>>

\* the connections the for loop has yet to reach that pass its test
RelayTargets(ch) == {c \in ConnIds : c > relayIdx[ch] /\ InManager(c) /\ RelayMatches(c, ch)}

\* for ws in self.websocket_server.manager: ... ws.send(buf, binary=True), up to
\* and including the next send; run catches nothing, so a send that raises ends
\* the thread; a send to a viewer that does not accept data does not return
RelaySend(ch) ==
    /\ relayPc[ch] = "send"
    /\ \A c \in RelayTargets(ch) :
           (\A b \in RelayTargets(ch) : c <= b) => conns[c].state # "stalled"
    /\ IF RelayTargets(ch) = {}
       THEN /\ relayPc' = [relayPc EXCEPT ![ch] = "read"]
            /\ relayBuf' = [relayBuf EXCEPT ![ch] = 0]
            /\ relayIdx' = [relayIdx EXCEPT ![ch] = 0]
            /\ UNCHANGED received
       ELSE LET c == CHOOSE c \in RelayTargets(ch) : \A b \in RelayTargets(ch) : c <= b
            IN IF conns[c].state = "broken"
               THEN /\ relayPc' = [relayPc EXCEPT ![ch] = "crashed"]
                    /\ UNCHANGED <<relayBuf, relayIdx, received>>
               ELSE /\ received' = [received EXCEPT
                                      ![c] = Append(@, [ch |-> ch, n |-> relayBuf[ch]])]
                    /\ relayIdx' = [relayIdx EXCEPT ![ch] = c]
                    /\ UNCHANGED <<relayPc, relayBuf>>
    /\ UNCHANGED <<cur, tearVars>>
    /\ UNCHANGED <<now, conns, procAlive, coordVars, birdVars, pipeOut, emitted, due>>

\* buf is empty and self.converter.process.poll() is not None: break
RelayEof(ch) ==
    /\ relayPc[ch] = "read"
    /\ pipeOut[ch] = <<>>
    /\ ~procAlive[ch]
    /\ relayPc' = [relayPc EXCEPT ![ch] = "ended"]
    /\ UNCHANGED <<cur, tearVars>>
    /\ UNCHANGED <<now, conns, procAlive, coordVars, birdVars, relayBuf, relayIdx,
                   pipeOut, emitted, received, due>>

\* exit()'s communicate reads the subprocess's stdout to its end and closes it;
\* a relay that calls read1 on it afterwards gets ValueError, which run does not
\* catch
StdoutClosed(ch) == \E i \in 1..exited : ConverterOrder[i] = ch

RelayReadClosed(ch) ==
    /\ relayPc[ch] = "read"
    /\ StdoutClosed(ch)
    /\ relayPc' = [relayPc EXCEPT ![ch] = "closed"]
    /\ UNCHANGED <<now, conns, procAlive, coordVars, birdVars, relayBuf, relayIdx,
                   pipeOut, emitted, received, due, cur, tearVars>>

(* ------------------------------------------------------------------ *)
(* The coordinator with its environment                                *)
(* ------------------------------------------------------------------ *)
\* the coordinator is blocked in video_output_queue.get
Waiting == pc = "wait"

\* the coordinator is about to take an item off the queue
FramePending == pc = "wait" /\ queue # <<>>

\* The steps of the environment are explored where the coordinator can tell
\* them apart; each commutes with every step it is not explored next to.
\*   - the clock is read by Produce and by the birdseye update of an iteration,
\*     the queue by QueueTimeout, ProcessFrame, DrainFrame and DrainDone;
\*   - the connections and the subprocesses are read by ProcessFrame; a blocked
\*     write waits for its viewer and its subprocess (connections and
\*     subprocesses are ended by CloseServer and by exit());
\*   - stop_event is read by LoopCheck (a signal that arrives during a blocked
\*     write is kept apart, being the one the coordinator cannot act on);
\*   - whether a subprocess has exited is read by ExitTerminate, ExitReturns and
\*     ExitTimeout of its converter;
\*   - where a relay is is read by the join of that relay.
\* In these runs every subprocess honours SIGTERM within the timeout and every
\* relay sees the end of its stream; SpecTeardown follows the other outcomes.
Next ==
    \/ (Waiting \/ pc = "write_camera") /\ Tick(ActiveWindow)
    \/ (Waiting \/ pc = "drain") /\
           \E camera \in Cameras : \E objects \in 0..1 : \E written \in BOOLEAN :
               Produce(camera, objects, written)
    \/ FramePending /\ \E ch \in Channels : Connect(PathOf(ch))
    \/ (FramePending \/ Blocked) /\ \E c \in ConnIds : Disconnect(c)
    \/ FramePending /\ \E c \in ConnIds : ConnStalls(c)
    \/ Blocked /\ \E c \in ConnIds : ConnResumes(c)
    \/ FramePending /\ \E ch \in Channels : EncoderDies(ch)
    \/ Blocked /\ EncoderDies(Writing)
    \/ (pc = "loop" \/ Blocked) /\ ReceiveSignal
    \/ LoopCheck
    \/ QueueTimeout
    \/ ProcessFrame
    \/ WriteResumes
    \/ DrainFrame
    \/ DrainDone
    \/ ExitTerminate
    \/ pc = "communicate" /\ EncoderDies(Exiting)
    \/ ExitReturns
    \/ pc = "join" /\ RelayEof(Joining)
    \/ JoinBroadcasters
    \/ CloseServer

Spec == Init /\ [][Next]_vars

\* The coordinator's thread is scheduled: a step it can take and stays able to
\* take, it takes. So is the thread of the relay being joined, and a subprocess
\* sent SIGTERM exits. Nothing is assumed of the viewers, the capture pipeline
\* or the signals.
CoordinatorStep ==
    \/ LoopCheck
    \/ QueueTimeout
    \/ ProcessFrame
    \/ WriteResumes
    \/ DrainFrame
    \/ DrainDone
    \/ ExitTerminate
    \/ ExitReturns
    \/ JoinBroadcasters
    \/ CloseServer

SpecLive ==
    /\ Init
    /\ [][Next]_vars
    /\ WF_vars(CoordinatorStep)
    /\ WF_vars(pc = "communicate" /\ EncoderDies(Exiting))
    /\ WF_vars(pc = "join" /\ RelayEof(Joining))

(* ------------------------------------------------------------------ *)
(* The relays with their encoders and viewers                          *)
(* ------------------------------------------------------------------ *)
\* the channels whose relay the runs below follow, and the channels their
\* viewers ask for
Relayed == {yard}
Viewed == Cameras

RelayInit ==
    /\ now = 0
    /\ queue = <<>>
    /\ made = {}
    /\ store = {}
    /\ shm_store = {}
    /\ previous_frames = [c \in Cameras |-> None]
    /\ stop_event = FALSE
    /\ pc = "wait"
    /\ raised = "none"
    /\ conns = [c \in 1..MaxViewers |-> NoConn]
    /\ procAlive = [ch \in Channels |-> TRUE]
    /\ writes = [ch \in Channels |-> 0]
    /\ calls = <<>>
    /\ last_active_frames = <<>>
    /\ camera_layout = <<>>
    /\ columns = Unset
    /\ rows = Unset
    /\ frame = blank_frame
    /\ upd = NoUpdate
    /\ relayPc = [ch \in Channels |-> "read"]
    /\ relayBuf = [ch \in Channels |-> 0]
    /\ relayIdx = [ch \in Channels |-> 0]
    /\ pipeOut = [ch \in Channels |-> <<>>]
    /\ emitted = [ch \in Channels |-> 0]
    /\ received = [c \in 1..MaxViewers |-> <<>>]
    /\ due = [c \in 1..MaxViewers |-> <<>>]
    /\ cur = NoItem
    /\ signals = [ch \in Channels |-> <<>>]
    /\ exited = 0
    /\ joined = 0

RelayNext ==
    \/ \E ch \in Viewed : Connect(PathOf(ch))
    \/ \E c \in ConnIds : Disconnect(c)
    \/ \E c \in ConnIds : ConnBreaks(c)
    \/ \E c \in ConnIds : ConnStalls(c)
    \/ \E c \in ConnIds : ConnResumes(c)
    \/ \E ch \in Relayed : EncoderEmits(ch)
    \/ \E ch \in Relayed : EncoderDies(ch)
    \/ \E ch \in Relayed : RelayRead(ch)
    \/ \E ch \in Relayed : RelaySend(ch)
    \/ \E ch \in Relayed : RelayEof(ch)

SpecRelay == RelayInit /\ [][RelayNext]_vars

(* ------------------------------------------------------------------ *)
(* The teardown, with the encoders, the relays and a viewer            *)
(* ------------------------------------------------------------------ *)
\* output_frames has seen stop_event set and found the queue empty
TeardownInit ==
    /\ now = 0
    /\ queue = <<>>
    /\ made = {}
    /\ store = {}
    /\ shm_store = {}
    /\ previous_frames = [c \in Cameras |-> None]
    /\ stop_event = TRUE
    /\ pc = "exit"
    /\ raised = "none"
    /\ conns \in {[c \in 1..MaxConns |-> NoConn],
                  [c \in 1..MaxConns |-> [state |-> "open", path |-> PathOf(yard)]]}
    /\ procAlive = [ch \in Channels |-> TRUE]
    /\ writes = [ch \in Channels |-> 0]
    /\ calls = <<>>
    /\ last_active_frames = <<>>
    /\ camera_layout = <<>>
    /\ columns = Unset
    /\ rows = Unset
    /\ frame = blank_frame
    /\ upd = NoUpdate
    /\ relayPc = [ch \in Channels |-> "read"]
    /\ relayBuf = [ch \in Channels |-> 0]
    /\ relayIdx = [ch \in Channels |-> 0]
    /\ pipeOut = [ch \in Channels |-> <<>>]
    /\ emitted = [ch \in Channels |-> 0]
    /\ received = [c \in 1..MaxConns |-> <<>>]
    /\ due = [c \in 1..MaxConns |-> <<>>]
    /\ cur = NoItem
    /\ signals = [ch \in Channels |-> <<>>]
    /\ exited = 0
    /\ joined = 0

TeardownNext ==
    \/ \E c \in ConnIds : ConnBreaks(c)
    \/ \E c \in ConnIds : ConnStalls(c)
    \/ \E c \in ConnIds : ConnResumes(c)
    \/ \E ch \in Relayed : EncoderEmits(ch)
    \/ \E ch \in Channels : EncoderDies(ch)
    \/ \E ch \in Channels : RelayRead(ch)
    \/ \E ch \in Channels : RelaySend(ch)
    \/ \E ch \in Channels : RelayEof(ch)
    \/ \E ch \in Channels : RelayReadClosed(ch)
    \/ ExitTerminate
    \/ ExitReturns
    \/ ExitTimeout
    \/ JoinBroadcasters
    \/ CloseServer

SpecTeardown == TeardownInit /\ [][TeardownNext]_vars

(* ------------------------------------------------------------------ *)
(* The compositor under the calls of the main loop                     *)
(* ------------------------------------------------------------------ *)
\* birdseye_manager.update(camera, len(current_tracked_objects),
\* len(motion_boxes), frame_time, frame) as the main loop calls it while a
\* birdseye viewer is connected; a call that raises is the last one
UpdateCall(camera, object_count, frame_time) ==
    /\ upd.result # "ZeroDivisionError"
    /\ Updated(Update(camera, object_count, frame_time, FrameId(camera, frame_time)))
    /\ UNCHANGED <<cur, tearVars>>
    /\ UNCHANGED <<now, conns, procAlive, coordVars, relayVars>>

\* a frame reaches the main loop at once, or when it is as old as the window
FrameTimes == {t \in 0..now : t = now \/ now - t = ActiveWindow}

BirdseyeNext ==
    \/ Tick(ClockStep)
    \/ \E camera \in BirdseyeCameras : \E object_count \in 0..1 : \E frame_time \in FrameTimes :
           UpdateCall(camera, object_count, frame_time)

SpecBirdseye == Init /\ [][BirdseyeNext]_vars

(* ------------------------------------------------------------------ *)
(* The compositor's grid with many cameras                             *)
(* ------------------------------------------------------------------ *)
\* the cameras of these runs are named "1", "2", ...
GridCamera(i) == Digits(i)

\* one camera after another starts tracking an object, the clock advances, and
\* frames without objects keep coming
GridNext ==
    \/ Tick(ClockStep)
    \/ /\ Len(last_active_frames) < MaxActive
       /\ UpdateCall(GridCamera(Len(last_active_frames) + 1), 1, now)
    \/ /\ last_active_frames # <<>>
       /\ UpdateCall(GridCamera(1), 0, now)

SpecGrid == Init /\ [][GridNext]_vars

(* ------------------------------------------------------------------ *)
(* Properties                                                          *)
(* ------------------------------------------------------------------ *)

\* C1: a step of the coordinator writes to a channel's encoder only if that
\* channel has a subscriber (a connection whose path's final segment names the
\* channel) when the frame is processed.
WritesOnlyWhenSubscribed ==
    [][\A ch \in Channels : writes'[ch] > writes[ch] => HasSubscriber(ch)]_vars

\* C2: no frame id is deleted twice, and every delete of an id comes after a get
\* of that id that returned a buffer.
FrameLifecycle ==
    \A i \in 1..Len(calls) :
        calls[i].op = "delete" =>
            /\ \E j \in 1..(i - 1) : calls[j] = [op |-> "get", id |-> calls[i].id]
            /\ \A j \in 1..Len(calls) : calls[j] = calls[i] => j = i

\* C2's case: the coordinator has shut down after its main loop released a
\* frame of a camera on getting the camera's next one.
FrameLifecycleWitness ==
    /\ pc = "done"
    /\ \E i \in 2..Len(calls) :
        /\ calls[i].op = "delete"
        /\ calls[i - 1].op = "get"
        /\ calls[i - 1].id # calls[i].id

\* C3: once the coordinator has finished its shutdown sequence, every frame id
\* it got a buffer for has been deleted exactly once.
AllAttachedReleased ==
    pc = "done" => \A id \in GotIds : DeleteCount(id) = 1

\* C4: whenever a relay is not in the middle of a fan-out, every connection that
\* is open and subscribed to its channel has been sent every chunk read while it
\* was subscribed, each once and in the encoder's order.
RelayDeliversEveryChunk ==
    \A ch \in Channels : \A c \in ConnIds :
        /\ (relayPc[ch] # "send" /\ conns[c].state = "open" /\ Subscribed(c, ch)) =>
               \A i \in 1..Len(due[c]) :
                   due[c][i].ch = ch =>
                       Cardinality({j \in 1..Len(received[c]) : received[c][j] = due[c][i]}) = 1
        /\ \A i, j \in 1..Len(received[c]) :
               (i < j /\ received[c][i].ch = ch /\ received[c][j].ch = ch) =>
                   received[c][i].n < received[c][j].n

\* C5: a send that fails never ends a relay.
SendFailureIsIsolated ==
    \A ch \in Channels : relayPc[ch] # "crashed"

\* C6: a frame buffer that is missing never ends the coordinator.
NotFoundIsSkipped ==
    raised # "NotFound"

\* C7: a write to an encoder whose subprocess has exited never ends the
\* coordinator.
DeadEncoderIsContained ==
    raised # "BrokenPipeError"

\* C8: an update resizes the layout only when round(sqrt(|active|)) differs from
\* round(sqrt(cell count)); when the two are equal, the update leaves columns,
\* rows and the cell count as they were.
LayoutKeptWithinBucket ==
    upd.result # "none" =>
        /\ upd.rebuilt => RoundSqrt(Len(upd.active)) # RoundSqrt(upd.cellsBefore)
        /\ RoundSqrt(Len(upd.active)) = RoundSqrt(upd.cellsBefore) =>
               /\ columns = upd.columnsBefore
               /\ rows = upd.rowsBefore
               /\ Len(camera_layout) = upd.cellsBefore

\* C8's case: an update found two active cameras and a layout of one cell, and
\* returned with the layout still one cell.
LayoutKeptWitness ==
    /\ upd.result = "True"
    /\ Len(upd.active) = 2
    /\ upd.cellsBefore = 1
    /\ Len(camera_layout) = 1

\* C9: an update that finds one active camera and no layout leaves a 1x1 layout
\* whose cell holds that camera; an update that then finds two active cameras
\* leaves the layout 1x1.
FirstCameraFillsTheCell ==
    /\ (upd.result = "True" /\ upd.cellsBefore = 0 /\ Len(upd.active) = 1) =>
           /\ columns = 1
           /\ rows = 1
           /\ camera_layout = <<upd.active[1]>>
    /\ (upd.result = "True" /\ upd.cellsBefore = 1 /\ Len(upd.active) = 2) =>
           /\ columns = 1
           /\ rows = 1
           /\ Len(camera_layout) = 1

\* C10: an update that finds no active camera and a layout holding two cameras
\* returns True and leaves an empty layout and the blank composite; an update
\* that finds no active camera and an empty layout returns False.
ExpiryRebuildsToEmpty ==
    /\ (upd.result # "none" /\ Len(upd.active) = 0 /\ Cardinality(upd.heldBefore) >= 2) =>
           /\ upd.result = "True"
           /\ camera_layout = <<>>
           /\ frame = blank_frame
    /\ (upd.result # "none" /\ Len(upd.active) = 0 /\ upd.cellsBefore = 0) =>
           upd.result = "False"

\* C11: at every update (a step that leaves the clock alone, so the clock the
\* update read is the current one), a camera whose last positive-object frame is
\* 30 seconds or more before the evaluation time is not in the active set, and
\* when the update has returned no layout cell holds a camera outside the
\* active set of that update.
ActivityWindow ==
    [][(now' = now /\ upd'.result # "none") =>
          /\ \A i \in 1..Len(last_active_frames') :
                 now - last_active_frames'[i].t >= ActiveWindow =>
                     last_active_frames'[i].cam \notin Range(upd'.active)
          /\ (Range(camera_layout') \ {None}) \subseteq Range(upd'.active)]_vars

\* C11's case: an update found a camera in the layout whose last positive-object
\* frame had left the window while another camera was active, and returned.
ActivityWindowWitness ==
    /\ upd.result = "True"
    /\ upd.active # <<>>
    /\ \E i \in 1..Len(last_active_frames) :
           /\ last_active_frames[i].cam \in upd.heldBefore
           /\ last_active_frames[i].cam \notin Range(upd.active)
           /\ last_active_frames[i].cam \notin Range(camera_layout)

\* C12: whenever an exit() returns, the subprocess of its converter has exited;
\* SIGKILL has been sent exactly when the subprocess was still running at the
\* timeout; and SIGTERM is the first signal exit() sends.
ExitReapsSubprocess ==
    [][exited' = exited + 1 =>
          /\ ~procAlive'[Exiting]
          /\ ("SIGKILL" \in Range(signals'[Exiting])) <=> procAlive[Exiting]
          /\ signals'[Exiting] \in {<<>>, <<"SIGTERM">>, <<"SIGTERM", "SIGKILL">>}
          /\ (signals'[Exiting] = <<>>) => ~procAlive[Exiting]]_vars

\* C12's case: the teardown has finished after one subprocess exited on SIGTERM
\* within the timeout and another had to be killed.
ExitReapsWitness ==
    /\ pc = "done"
    /\ \E a, b \in Channels :
        /\ signals[a] = <<"SIGTERM">>
        /\ signals[b] = <<"SIGTERM", "SIGKILL">>

\* C13: once the coordinator has left the main loop on seeing stop_event set, no
\* step calls a converter write; a step of the drain adds to the frame manager's
\* calls exactly a get and a delete of the same id, and no later step adds any;
\* an exit() is under way only while no join has returned and no connection is
\* closed; a join returns only when every exit() has returned; and a connection
\* is closed only when every exit() and every join has returned.
ShutdownOrdering ==
    [][/\ pc \in {"drain", "exit", "communicate", "join", "close", "done"} =>
             /\ writes' = writes
             /\ \/ calls' = calls
                \/ /\ pc = "drain"
                   /\ \E id \in made : calls' = calls \o <<[op |-> "get", id |-> id],
                                                            [op |-> "delete", id |-> id]>>
       /\ (signals' # signals \/ exited' # exited) =>
             /\ stop_event
             /\ joined = 0
             /\ \A c \in ConnIds : conns[c].state # "closed"
       /\ joined' # joined =>
             /\ exited = Len(ConverterOrder)
             /\ \A c \in ConnIds : conns[c].state # "closed"
       /\ (\E c \in ConnIds : conns'[c].state = "closed" /\ conns[c].state # "closed") =>
             /\ exited = Len(ConverterOrder)
             /\ joined = Len(ConverterOrder)]_vars

\* C13's case: the coordinator wrote to an encoder, saw the flag, drained a
\* queued item, and went through the whole teardown.
ShutdownOrderingWitness ==
    /\ pc = "done"
    /\ \E ch \in Channels : writes[ch] > 0
    /\ \E i \in 1..(Len(calls) - 1) :
           calls[i].op = "get" /\ calls[i + 1] = [op |-> "delete", id |-> calls[i].id]
    /\ \A c \in ConnIds : conns[c].state = "closed"
    /\ \A ch \in Channels : signals[ch] # <<>>

\* C14: the coordinator keeps taking the items of every camera off the queue,
\* whatever the viewers of the other channels do: an item of camera y that is
\* queued is eventually dequeued, unless the process has ended.
IngestionContinues ==
    \A y \in Cameras :
        (\E i \in 1..Len(queue) : queue[i].camera = y) ~>
            (~Running \/ \A i \in 1..Len(queue) : queue[i].camera # y)

\* C15: once stop_event is set, the coordinator eventually completes the
\* teardown and returns.
ShutdownHonoured ==
    stop_event ~> pc = "done"

\* C16: every chunk a connection has been sent came from the relay of the
\* channel that the final segment of the connection's request path names.
RoutingIsExact ==
    \A c \in ConnIds :
        InManager(c) =>
            \A i \in 1..Len(received[c]) :
                received[c][i].ch = TrailingSegment(conns[c].path)

\* C17: a relay whose run has ended holds no chunk (its last read returned
\* empty) and its encoder subprocess has exited.
RelayEndsOnlyAtEof ==
    \A ch \in Channels :
        RelayOver(ch) => (relayBuf[ch] = 0 /\ ~procAlive[ch])

PlacementFillsEmptyCells ==
    (upd.result = "True" /\ None \in Range(camera_layout)) =>
        Range(upd.active) \subseteq Range(camera_layout)

\* C20: an update that rebuilt the layout left at least as many cells as it
\* found active cameras.
RebuiltGridHoldsActive ==
    upd.rebuilt => Len(camera_layout) >= Len(upd.active)

\* C20's case: an update found five active cameras and a layout of nine cells,
\* and rebuilt it to three columns and two rows.
RebuiltGridWitness ==
    /\ upd.rebuilt
    /\ upd.cellsBefore = 9
    /\ Len(upd.active) = 5
    /\ columns = 3
    /\ rows = 2

====
